---- MODULE Spec2Model ----
(***************************************************************************)
(* Voice-isolation pipeline: extract_audio_from_video -> isolate_voice ->  *)
(* merge_video_with_audio, composed by process_video, fanned out by        *)
(* batch_process_videos and driven by the command line's main.             *)
(*                                                                         *)
(* The file system is a function from paths to entries.  A path is a       *)
(* sequence of name components; a component is [stem, ext] with the stem a *)
(* sequence of tokens, so that pathlib's with_stem / with_suffix / "/" act  *)
(* on it as they act on a file name: "a_clean_new.mp4" is the component    *)
(* [stem |-> <<"a", "_clean", "_new">>, ext |-> ".mp4"].                    *)
(***************************************************************************)
EXTENDS Integers, Sequences, FiniteSets, TLC

VARIABLES fs, envKey, serial, pc, op, pre, dlg, pv, trace, batch, cli, runs

vars == <<fs, envKey, serial, pc, op, pre, dlg, pv, trace, batch, cli, runs>>

\* ------------------------------------------------------------------ bounds

\* Top-level calls made one after another on the same file system.
MaxCalls == 2

\* ------------------------------------------------------------------- paths

NoPath == << >>

Comp(stem, ext) == [stem |-> stem, ext |-> ext]

\* pathlib's "/" with a file name
Join(dir, comp) == Append(dir, comp)

Parent(p) == SubSeq(p, 1, Len(p) - 1)

Name(p) == p[Len(p)]

\* Path.with_stem(f"{p.stem}{marker}")
WithStemMarker(p, marker) ==
    [p EXCEPT ![Len(p)] = Comp(Append(Name(p).stem, marker), Name(p).ext)]

\* Path.with_suffix(ext)
WithSuffix(p, ext) == [p EXCEPT ![Len(p)] = Comp(Name(p).stem, ext)]

\* str.lower() on a suffix
Lower(ext) ==
    CASE ext = ".MP4" -> ".mp4"
      [] ext = ".MOV" -> ".mov"
      [] ext = ".Mp4" -> ".mp4"
      [] OTHER -> ext

\* ------------------------------------------------------------- file system

DirEntry == [kind |-> "dir", data |-> << >>, by |-> 0]

File(data, n) == [kind |-> "file", data |-> data, by |-> n]

Exists(fsys, p) == p \in DOMAIN fsys

IsDir(fsys, p) == p = NoPath \/ (Exists(fsys, p) /\ fsys[p].kind = "dir")

IsFile(fsys, p) == Exists(fsys, p) /\ fsys[p].kind = "file"

Write(fsys, p, entry) == (p :> entry) @@ fsys

IsUnder(p, dir) == Len(p) > Len(dir) /\ SubSeq(p, 1, Len(dir)) = dir

\* shutil.rmtree of a directory: the directory and everything below it
RemoveTree(fsys, dir) ==
    [p \in {q \in DOMAIN fsys : q # dir /\ ~IsUnder(q, dir)} |-> fsys[p]]

Children(fsys, dir) == {p \in DOMAIN fsys : Len(p) = Len(dir) + 1 /\ Parent(p) = dir}

\* ------------------------------------------------------------------ errors

NoErr == [type |-> "none", at |-> "none"]

Err(type, at) == [type |-> type, at |-> at]

\* What a stage hands back: the file system it leaves, the returned path or
\* the raised error, and the external delegate calls it made.
Result(fsys, ret, err, calls) == [fs |-> fsys, ret |-> ret, err |-> err, dlg |-> calls]

\* ------------------------------------------------------- external delegates

Outcomes == {"ok", "fail", "partial"}

FfmpegCall(out, y) == [tool |-> "ffmpeg", out |-> out, y |-> y, key |-> ""]

\* The mux tool refuses, before writing anything, an output that exists when
\* -y was not given (it overwrites only on -y or on a "y" typed at its prompt,
\* and the prompt is captured here, not shown), an output that is one of its
\* inputs, a missing input, and an output it cannot create as a file.
FfmpegRefuses(fsys, inputs, out, y) ==
    \/ Exists(fsys, out) /\ ~y
    \/ out \in inputs
    \/ \E i \in inputs : ~Exists(fsys, i)
    \/ ~IsDir(fsys, Parent(out))
    \/ IsDir(fsys, out)

\* ffmpeg ... .run(): [ok, fs].  A run that fails part-way leaves an
\* incomplete output behind.
FfmpegRun(fsys, inputs, out, y, outcome, data, n) ==
    IF FfmpegRefuses(fsys, inputs, out, y) \/ outcome = "fail"
    THEN [ok |-> FALSE, fs |-> fsys]
    ELSE IF outcome = "partial"
    THEN [ok |-> FALSE, fs |-> Write(fsys, out, File(Append(data, "partial"), n))]
    ELSE [ok |-> TRUE, fs |-> Write(fsys, out, File(data, n))]

\* --------------------------------------------------------------- extractor

extract_audio_from_video(fsys, video_path, output_path, outcome, n) ==
    IF ~Exists(fsys, video_path)
    THEN Result(fsys, NoPath, Err("FileNotFoundError", "extract"), << >>)
    ELSE LET out == IF output_path = NoPath
                    THEN WithSuffix(video_path, ".mp3")
                    ELSE output_path
             r == FfmpegRun(fsys, {video_path}, out, TRUE, outcome,
                            Append(fsys[video_path].data, "mp3"), n)
         IN  IF r.ok
             THEN Result(r.fs, out, NoErr, <<FfmpegCall(out, TRUE)>>)
             ELSE Result(r.fs, NoPath, Err("ffmpeg.Error", "extract"),
                         <<FfmpegCall(out, TRUE)>>)

\* ---------------------------------------------------------------- isolator

KeyNone == "<None>"

Keys == {KeyNone, "", "sk"}

\* Python truthiness of an Optional[str]
Truthy(key) == key # KeyNone /\ key # ""

ClientCall(key) == [tool |-> "client", out |-> NoPath, y |-> FALSE, key |-> key]

RequestCall(key) == [tool |-> "request", out |-> NoPath, y |-> FALSE, key |-> key]

\* isolator.py 54-56: the variable is read only when the parameter is None
IsolateKey(api_key, env) == IF api_key = KeyNone THEN env ELSE api_key

\* isolator.py 54-59: the emptiness test sits inside "if api_key is None"
IsolateKeyMissing(api_key, env) == api_key = KeyNone /\ ~Truthy(env)

isolate_voice(fsys, audio_path, output_path, api_key, env, outcome, n) ==
    IF ~Exists(fsys, audio_path)
    THEN Result(fsys, NoPath, Err("FileNotFoundError", "isolate"), << >>)
    ELSE LET out == IF output_path = NoPath
                    THEN WithStemMarker(audio_path, "_isolated")
                    ELSE output_path
             key == IsolateKey(api_key, env)
             calls == <<ClientCall(key), RequestCall(key)>>
             data == Append(fsys[audio_path].data, "iso")
         IN  IF IsolateKeyMissing(api_key, env)
             THEN Result(fsys, NoPath, Err("ValueError", "isolate"), << >>)
             ELSE IF outcome = "fail"
             THEN Result(fsys, NoPath, Err("ApiError", "isolate"), calls)
             ELSE IF outcome = "partial"
             THEN Result(Write(fsys, out, File(Append(data, "partial"), n)),
                         NoPath, Err("ApiError", "isolate"), calls)
             ELSE Result(Write(fsys, out, File(data, n)), out, NoErr, calls)

\* ------------------------------------------------------------------ merger

\* merger.py 56-59: the path the merge is planned at
MergeResolved(video_path, output_path) ==
    IF output_path = NoPath THEN WithStemMarker(video_path, "_clean") ELSE output_path

\* (mutant) no rename on collision
MergeDestNoRename(fsys, resolved, overwrite) == resolved

\* (mutant) the rename does not look at overwrite
MergeDestAlwaysRename(fsys, resolved, overwrite) ==
    IF Exists(fsys, resolved) THEN WithStemMarker(resolved, "_new") ELSE resolved

\* merger.py 61-65: the path handed to the mux tool
MergeDest(fsys, resolved, overwrite) ==
    IF Exists(fsys, resolved) /\ ~overwrite
    THEN WithStemMarker(resolved, "_new")
    ELSE resolved

\* (mutant) -y whatever the caller asked
MergeYFlagAlways(overwrite) == TRUE

\* merger.py 76: global_args = ["-y"] if overwrite else []
MergeYFlag(overwrite) == overwrite

\* (mutant) only the video is looked for
MergeInputMissingVideoOnly(fsys, video_path, audio_path) == ~Exists(fsys, video_path)

\* merger.py 50-54: either input missing raises FileNotFoundError
MergeInputMissing(fsys, video_path, audio_path) ==
    ~Exists(fsys, video_path) \/ ~Exists(fsys, audio_path)

merge_video_with_audio(fsys, video_path, audio_path, output_path, overwrite, outcome, n) ==
    IF MergeInputMissing(fsys, video_path, audio_path)
    THEN Result(fsys, NoPath, Err("FileNotFoundError", "merge"), << >>)
    ELSE LET out == MergeDest(fsys, MergeResolved(video_path, output_path), overwrite)
             y == MergeYFlag(overwrite)
             r == FfmpegRun(fsys, {video_path, audio_path}, out, y, outcome,
                            <<"merged">> \o fsys[video_path].data \o fsys[audio_path].data, n)
         IN  IF r.ok
             THEN Result(r.fs, out, NoErr, <<FfmpegCall(out, y)>>)
             ELSE Result(r.fs, NoPath, Err("ffmpeg.Error", "merge"), <<FfmpegCall(out, y)>>)

\* ------------------------------------------------------------ the world

InDir == <<Comp(<<"in">>, "")>>

TmpRoot == <<Comp(<<"tmp">>, "")>>

VideoA == Join(InDir, Comp(<<"a">>, ".mp4"))

AudioA == Join(InDir, Comp(<<"a">>, ".mp3"))

MissingVideo == Join(InDir, Comp(<<"zz">>, ".mp4"))

MissingAudio == Join(InDir, Comp(<<"zz">>, ".mp3"))

ExplicitOut == Join(InDir, Comp(<<"out">>, ".mp4"))

CleanA == WithStemMarker(VideoA, "_clean")

CleanNewA == WithStemMarker(CleanA, "_new")

BaseFs ==
    (InDir :> DirEntry) @@ (TmpRoot :> DirEntry)
    @@ (VideoA :> File(<<"a">>, 0)) @@ (AudioA :> File(<<"a", "mp3">>, 0))

\* Files earlier runs may have left behind
Leftovers == {CleanA, CleanNewA}

OldFs(paths) == [p \in paths |-> File(<<"old">>, 0)]

Videos == {VideoA, MissingVideo}

Audios == {AudioA, MissingAudio}

Outputs == {NoPath, ExplicitOut}

\* ------------------------------------------------------------------ frames

NoOp ==
    [name |-> "none", video |-> NoPath, audio |-> NoPath, output |-> NoPath,
     overwrite |-> FALSE, keep |-> FALSE, api_key |-> KeyNone, outcome |-> "ok",
     ret |-> NoPath, err |-> NoErr]

NoPv ==
    [caller |-> "none", video_path |-> NoPath, output_path |-> NoPath,
     keep_temp_files |-> FALSE, api_key |-> KeyNone, overwrite |-> FALSE,
     temp_dir |-> NoPath, extracted |-> NoPath, isolated |-> NoPath,
     final |-> NoPath, err |-> NoErr]

NoBatch ==
    [caller |-> "none", input_dir |-> NoPath, output_dir |-> NoPath, temp_dir |-> NoPath,
     video_extensions |-> {}, api_key |-> KeyNone, keep_temp_files |-> FALSE,
     overwrite |-> FALSE, listed |-> << >>, video_files |-> << >>, i |-> 0,
     output_files |-> << >>, attempted |-> << >>, failed |-> << >>, err |-> NoErr]

NoCli ==
    [input |-> NoPath, output |-> NoPath, batch |-> FALSE, temp_dir |-> NoPath,
     keep_temp |-> FALSE, api_key_arg |-> KeyNone, overwrite |-> FALSE,
     api_key |-> KeyNone, status |-> -1]

\* One of two merge calls running side by side
NoRun ==
    [at |-> "none", output |-> NoPath, overwrite |-> FALSE, dest |-> NoPath,
     y |-> FALSE, ret |-> NoPath, err |-> NoErr]

RunIds == {1, 2}

NoRuns == [r \in RunIds |-> NoRun]

\* -------------------------------------------------------------------- Init

Init ==
    /\ \E left \in SUBSET Leftovers : fs = OldFs(left) @@ BaseFs
    /\ envKey \in Keys
    /\ serial = 0
    /\ pc = "idle"
    /\ op = NoOp
    /\ pre = << >>
    /\ dlg = << >>
    /\ pv = NoPv
    /\ trace = << >>
    /\ batch = NoBatch
    /\ cli = NoCli
    /\ runs = NoRuns

\* ------------------------------------------------- direct calls of a stage

\* One call's bookkeeping: what it was called with and what came of it
Finish(name, r, rec) ==
    /\ fs' = r.fs
    /\ pre' = fs
    /\ dlg' = r.dlg
    /\ op' = [rec EXCEPT !.name = name, !.ret = r.ret, !.err = r.err]
    /\ serial' = serial + 1
    /\ pc' = "returned"
    /\ UNCHANGED <<envKey, pv, trace, batch, cli, runs>>

\* The caller goes on: nothing of the finished call is kept but the files
Return ==
    /\ pc = "returned"
    /\ pc' = "idle"
    /\ op' = NoOp /\ pre' = << >> /\ dlg' = << >>
    /\ UNCHANGED <<fs, envKey, serial, pv, trace, batch, cli, runs>>

CallExtract ==
    /\ pc = "idle" /\ serial < MaxCalls
    /\ \E v \in Videos, o \in {NoPath}, oc \in Outcomes :
         Finish("extract",
                extract_audio_from_video(fs, v, o, oc, serial + 1),
                [NoOp EXCEPT !.video = v, !.output = o, !.outcome = oc])

CallIsolate ==
    /\ pc = "idle" /\ serial < MaxCalls
    /\ \E a \in Audios, o \in {NoPath}, k \in Keys, oc \in Outcomes :
         Finish("isolate",
                isolate_voice(fs, a, o, k, envKey, oc, serial + 1),
                [NoOp EXCEPT !.audio = a, !.output = o, !.api_key = k, !.outcome = oc])

CallMerge ==
    /\ pc = "idle" /\ serial < MaxCalls
    /\ \E v \in Videos, a \in Audios, o \in Outputs, ow \in BOOLEAN, oc \in Outcomes :
         Finish("merge",
                merge_video_with_audio(fs, v, a, o, ow, oc, serial + 1),
                [NoOp EXCEPT !.video = v, !.audio = a, !.output = o,
                             !.overwrite = ow, !.outcome = oc])

\* ------------------------------------------------------------ process_video

TmpNames == <<Comp(<<"tmpdir1">>, ""), Comp(<<"tmpdir2">>, "")>>

\* tempfile.TemporaryDirectory(): a directory of a name not in use
FreshTemp(fsys) ==
    LET free == {i \in 1..Len(TmpNames) : ~Exists(fsys, Join(TmpRoot, TmpNames[i]))}
    IN  Join(TmpRoot, TmpNames[CHOOSE i \in free : \A j \in free : i <= j])

TempFilesDir(video_path) == Join(Parent(video_path), Comp(<<"temp_files">>, ""))

Event(stage, input, r) ==
    [stage |-> stage, input |-> input, ret |-> r.ret, err |-> r.err]

\* (mutant) the exception leaves without the block's exit having run
OnRaiseSkipsExit == "pv_done"

\* Where an exception raised inside the "with" block goes: the context
\* manager's exit runs before the exception leaves process_video.
OnRaise == "pv_cleanup"

\* (mutant) a failed stage is logged and the next stage runs all the same
AfterStageSwallow(r, next) == next

\* Where process_video goes after a stage: on to the next stage when the stage
\* returned, out of the block when it raised (nothing catches the exception)
AfterStage(r, next) == IF r.err = NoErr THEN next ELSE OnRaise

\* processor.py 46-59: the existence check, the default output path and the
\* temporary directory
PvEnter(caller, v, o, keep, k, ow) ==
    /\ trace' = << >>
    /\ dlg' = << >>
    /\ pre' = fs
    /\ IF ~Exists(fs, v)
       THEN /\ pv' = [NoPv EXCEPT !.caller = caller, !.video_path = v,
                                  !.err = Err("FileNotFoundError", "process_video")]
            /\ pc' = "pv_done"
            /\ fs' = fs
       ELSE /\ pv' = [NoPv EXCEPT !.caller = caller, !.video_path = v,
                                  !.output_path = IF o = NoPath
                                                  THEN WithStemMarker(v, "_clean")
                                                  ELSE o,
                                  !.keep_temp_files = keep, !.api_key = k,
                                  !.overwrite = ow, !.temp_dir = FreshTemp(fs)]
            /\ pc' = "pv_extract"
            /\ fs' = Write(fs, FreshTemp(fs), DirEntry)

\* processor.py 61-66
PvExtract ==
    /\ pc = "pv_extract"
    /\ \E oc \in Outcomes :
         LET r == extract_audio_from_video(
                      fs, pv.video_path,
                      Join(pv.temp_dir, Comp(Name(pv.video_path).stem, ".mp3")),
                      oc, serial)
         IN  /\ fs' = r.fs
             /\ dlg' = dlg \o r.dlg
             /\ trace' = Append(trace, Event("extract", pv.video_path, r))
             /\ IF r.err = NoErr
                THEN pv' = [pv EXCEPT !.extracted = r.ret]
                ELSE pv' = [pv EXCEPT !.err = r.err]
             /\ pc' = AfterStage(r, "pv_isolate")
    /\ UNCHANGED <<envKey, serial, op, pre, batch, cli, runs>>

\* processor.py 68-74
PvIsolate ==
    /\ pc = "pv_isolate"
    /\ \E oc \in Outcomes :
         LET r == isolate_voice(
                      fs, pv.extracted,
                      Join(pv.temp_dir,
                           Comp(Append(Name(pv.video_path).stem, "_isolated"), ".mp3")),
                      pv.api_key, envKey, oc, serial)
         IN  /\ fs' = r.fs
             /\ dlg' = dlg \o r.dlg
             /\ trace' = Append(trace, Event("isolate", pv.extracted, r))
             /\ IF r.err = NoErr
                THEN pv' = [pv EXCEPT !.isolated = r.ret]
                ELSE pv' = [pv EXCEPT !.err = r.err]
             /\ pc' = AfterStage(r, "pv_merge")
    /\ UNCHANGED <<envKey, serial, op, pre, batch, cli, runs>>

\* processor.py 76-84
PvMerge ==
    /\ pc = "pv_merge"
    /\ \E oc \in Outcomes :
         LET r == merge_video_with_audio(fs, pv.video_path, pv.isolated,
                                         pv.output_path, pv.overwrite, oc, serial)
         IN  /\ fs' = r.fs
             /\ dlg' = dlg \o r.dlg
             /\ trace' = Append(trace, Event("merge", pv.isolated, r))
             /\ IF r.err = NoErr
                THEN pv' = [pv EXCEPT !.final = r.ret]
                ELSE pv' = [pv EXCEPT !.err = r.err]
             /\ pc' = AfterStage(r, IF pv.keep_temp_files THEN "pv_keep" ELSE "pv_cleanup")
    /\ UNCHANGED <<envKey, serial, op, pre, batch, cli, runs>>

\* shutil.copy2(src, dir / Path(src).name)
Copy2(fsys, src, dir) == Write(fsys, Join(dir, Name(src)), fsys[src])

\* processor.py 86-96: mkdir(exist_ok=True) raises when the name is taken by
\* a file; either copy can fail on its own (disk, permissions).
PvKeep ==
    /\ pc = "pv_keep"
    /\ LET d == TempFilesDir(pv.video_path)
           made == IF Exists(fs, d) THEN fs ELSE Write(fs, d, DirEntry)
       IN  IF Exists(fs, d) /\ ~IsDir(fs, d)
           THEN /\ fs' = fs
                /\ pv' = [pv EXCEPT !.err = Err("FileExistsError", "keep")]
                /\ pc' = OnRaise
           ELSE \E oc \in Outcomes :
                  /\ fs' = CASE oc = "fail" -> made
                             [] oc = "partial" -> Copy2(made, pv.extracted, d)
                             [] OTHER -> Copy2(Copy2(made, pv.extracted, d), pv.isolated, d)
                  /\ pv' = IF oc = "ok" THEN pv
                           ELSE [pv EXCEPT !.err = Err("OSError", "keep")]
                  /\ pc' = IF oc = "ok" THEN "pv_cleanup" ELSE OnRaise
    /\ UNCHANGED <<envKey, serial, op, pre, dlg, trace, batch, cli, runs>>

\* The end of the "with" block, reached by the return and by every raise:
\* TemporaryDirectory.cleanup()
PvCleanup ==
    /\ pc = "pv_cleanup"
    /\ fs' = RemoveTree(fs, pv.temp_dir)
    /\ pc' = "pv_done"
    /\ UNCHANGED <<envKey, serial, op, pre, dlg, pv, trace, batch, cli, runs>>

\* A caller's call of process_video
CallProcessVideo ==
    /\ pc = "idle" /\ serial < MaxCalls
    /\ \E v \in Videos, o \in Outputs, keep \in BOOLEAN, k \in Keys, ow \in BOOLEAN :
         /\ PvEnter("top", v, o, keep, k, ow)
         /\ op' = [NoOp EXCEPT !.name = "process_video", !.video = v, !.output = o,
                               !.keep = keep, !.api_key = k, !.overwrite = ow]
    /\ serial' = serial + 1
    /\ UNCHANGED <<envKey, batch, cli, runs>>

\* process_video is back with its caller, which goes on
PvDone ==
    /\ pc = "pv_done" /\ pv.caller = "top"
    /\ pc' = "idle"
    /\ op' = NoOp /\ pre' = << >> /\ dlg' = << >>
    /\ pv' = NoPv /\ trace' = << >>
    /\ UNCHANGED <<fs, envKey, serial, batch, cli, runs>>

ProcessVideoStep == PvExtract \/ PvIsolate \/ PvMerge \/ PvKeep \/ PvCleanup

Next ==
    \/ CallExtract
    \/ CallIsolate
    \/ CallMerge
    \/ Return
    \/ CallProcessVideo
    \/ ProcessVideoStep
    \/ PvDone

Spec == Init /\ [][Next]_vars

\* ------------------------------------------------------- batch_process_videos

\* Directory entries the input directory may hold
MaxEntries == 3

VideoB == Join(InDir, Comp(<<"b">>, ".MOV"))

VideoA2 == Join(InDir, Comp(<<"a">>, ".mov"))

Notes == Join(InDir, Comp(<<"notes">>, ".txt"))

SubDir == Join(InDir, Comp(<<"c">>, ".mp4"))

Nested == Join(SubDir, Comp(<<"d">>, ".mp4"))

\* What a listing of the input directory may show: files with an eligible
\* extension in either case, a file of another kind, and a directory named
\* like a video with a video inside it
EntryFs(e) ==
    CASE e = "a" -> (VideoA :> File(<<"a">>, 0))
      [] e = "b" -> (VideoB :> File(<<"b">>, 0))
      [] e = "a2" -> (VideoA2 :> File(<<"a2">>, 0))
      [] e = "notes" -> (Notes :> File(<<"notes">>, 0))
      [] e = "sub" -> (SubDir :> DirEntry) @@ (Nested :> File(<<"d">>, 0))

Entries == {"a", "b", "a2", "notes", "sub"}

RECURSIVE ListingFs(_)
ListingFs(es) ==
    IF es = {} THEN (InDir :> DirEntry) @@ (TmpRoot :> DirEntry)
    ELSE LET e == CHOOSE x \in es : TRUE IN EntryFs(e) @@ ListingFs(es \ {e})

\* processor.py 106
DefaultExtensions == {".mp4", ".avi", ".mov", ".mkv", ".webm"}

ExtensionSets == {DefaultExtensions, {".mp4", ".MOV"}}

ProcessedDir(input_dir) == Join(input_dir, Comp(<<"processed_videos">>, ""))

SuppliedTemp == Join(InDir, Comp(<<"scratch">>, ""))

\* Path.mkdir(parents=True, exist_ok=True): [ok, fs]; it raises when the
\* path or one of its parents is there and is no directory
RECURSIVE MkdirP(_, _)
MkdirP(fsys, d) ==
    IF d = NoPath THEN [ok |-> TRUE, fs |-> fsys]
    ELSE IF Exists(fsys, d) THEN [ok |-> IsDir(fsys, d), fs |-> fsys]
    ELSE LET up == MkdirP(fsys, Parent(d))
         IN  IF up.ok THEN [ok |-> TRUE, fs |-> Write(up.fs, d, DirEntry)] ELSE up

\* processor.py 150: f.suffix.lower() in video_extensions
Eligible(suffix, video_extensions) == Lower(suffix) \in video_extensions

\* processor.py 148-151
Discover(fsys, input_dir, video_extensions) ==
    {f \in Children(fsys, input_dir) :
        IsFile(fsys, f) /\ Eligible(Name(f).ext, video_extensions)}

\* iterdir() yields the entries in an order of the platform's choosing
Orderings(S) ==
    {q \in [1..Cardinality(S) -> S] : \A i, j \in 1..Cardinality(S) : q[i] = q[j] => i = j}

\* processor.py 128-157
BatchEnter(caller, input_dir, output_dir, temp_dir, exts, k, keep, ow) ==
    LET b0 == [NoBatch EXCEPT !.caller = caller, !.input_dir = input_dir,
                              !.video_extensions = exts, !.api_key = k,
                              !.keep_temp_files = keep, !.overwrite = ow]
        out == IF output_dir = NoPath THEN ProcessedDir(input_dir) ELSE output_dir
        m1 == MkdirP(fs, out)
        tmp == IF temp_dir = NoPath /\ keep
               THEN Join(input_dir, Comp(<<"temp_files">>, ""))
               ELSE temp_dir
        m2 == IF temp_dir = NoPath /\ keep THEN MkdirP(m1.fs, tmp) ELSE m1
    IN  IF ~IsDir(fs, input_dir) \/ input_dir = NoPath
        THEN /\ batch' = [b0 EXCEPT !.err = Err("NotADirectoryError", "batch")]
             /\ fs' = fs
             /\ pc' = "batch_done"
        ELSE IF ~m1.ok
        THEN /\ batch' = [b0 EXCEPT !.output_dir = out, !.err = Err("FileExistsError", "batch")]
             /\ fs' = fs
             /\ pc' = "batch_done"
        ELSE IF ~m2.ok
        THEN /\ batch' = [b0 EXCEPT !.output_dir = out, !.temp_dir = tmp,
                                    !.err = Err("FileExistsError", "batch")]
             /\ fs' = m1.fs
             /\ pc' = "batch_done"
        ELSE \E q \in Orderings(Discover(m2.fs, input_dir, exts)) :
               /\ batch' = [b0 EXCEPT !.output_dir = out, !.temp_dir = tmp,
                                      !.listed = Children(m2.fs, input_dir),
                                      !.video_files = q]
               /\ fs' = m2.fs
               /\ pc' = IF q = << >> THEN "batch_done" ELSE "batch_loop"

\* processor.py 161-171: the next item's call of process_video
BatchItem ==
    /\ pc = "batch_loop" /\ batch.i < Len(batch.video_files)
    /\ LET video_file == batch.video_files[batch.i + 1]
           output_file == Join(batch.output_dir,
                               Comp(Append(Name(video_file).stem, "_clean"),
                                    Name(video_file).ext))
       IN  /\ PvEnter("batch", video_file, output_file, batch.keep_temp_files,
                      batch.api_key, batch.overwrite)
           /\ batch' = [batch EXCEPT !.i = @ + 1, !.attempted = Append(@, video_file)]
    /\ UNCHANGED <<envKey, serial, op, cli, runs>>

\* (mutant) the first failing item ends the loop
AfterItemStopOnError(err) == IF err = NoErr THEN "batch_loop" ELSE "batch_done"

\* processor.py 173-174: the exception is logged and the loop goes on
AfterItem(err) == "batch_loop"

\* processor.py 172-174: the item's result is appended, or its error logged
BatchCollect ==
    /\ pc = "pv_done" /\ pv.caller = "batch"
    /\ batch' = IF pv.err = NoErr
                THEN [batch EXCEPT !.output_files = Append(@, pv.final)]
                ELSE [batch EXCEPT !.failed = Append(@, pv.video_path)]
    /\ pc' = AfterItem(pv.err)
    /\ pv' = NoPv /\ trace' = << >> /\ dlg' = << >> /\ pre' = << >>
    /\ UNCHANGED <<fs, envKey, serial, op, cli, runs>>

\* processor.py 176
BatchReturn ==
    /\ pc = "batch_loop" /\ batch.i = Len(batch.video_files)
    /\ pc' = "batch_done"
    /\ UNCHANGED <<fs, envKey, serial, op, pre, dlg, pv, trace, batch, cli, runs>>

OutputDirs == {NoPath, InDir, Notes}

\* A caller's call of batch_process_videos
CallBatch ==
    /\ pc = "idle"
    /\ \E o \in OutputDirs, t \in {NoPath, SuppliedTemp}, exts \in ExtensionSets,
          k \in {KeyNone, "sk"}, keep \in BOOLEAN, ow \in BOOLEAN :
         BatchEnter("top", InDir, o, t, exts, k, keep, ow)
    /\ serial' = 1
    /\ UNCHANGED <<envKey, op, pre, dlg, pv, trace, cli, runs>>

InitBatch ==
    /\ \E es \in SUBSET Entries :
         /\ Cardinality(es) <= MaxEntries
         /\ \E old \in SUBSET {Join(ProcessedDir(InDir), Name(CleanA))} :
              fs = ListingFs(es) @@ (IF old = {} THEN << >>
                                     ELSE (ProcessedDir(InDir) :> DirEntry) @@ OldFs(old))
    /\ envKey = KeyNone
    /\ serial = 0
    /\ pc = "idle"
    /\ op = NoOp
    /\ pre = << >>
    /\ dlg = << >>
    /\ pv = NoPv
    /\ trace = << >>
    /\ batch = NoBatch
    /\ cli = NoCli
    /\ runs = NoRuns

NextBatch == CallBatch \/ BatchItem \/ ProcessVideoStep \/ BatchCollect \/ BatchReturn

SpecBatch == InitBatch /\ [][NextBatch]_vars

\* ------------------------------------------------------------------- main

\* argparse's parser.error(): the usage message, then sys.exit(2)
ParserErrorStatus == 2

\* (mutant) every outcome reported as success
ExitStatusAlwaysOk(err) == 0

\* cli.py 121-125: return 1 from the except clause, return 0 otherwise
ExitStatus(err) == IF err = NoErr THEN 0 ELSE 1

\* cli.py 76: args.api_key or os.environ.get("ELEVENLABS_API_KEY")
CliKey(arg, env) == IF Truthy(arg) THEN arg ELSE env

\* cli.py 75-119, up to the call it makes.  parser.error raises SystemExit,
\* which "except Exception" does not catch.
CallMain ==
    /\ pc = "idle"
    /\ \E input \in {InDir, VideoA, MissingVideo}, output \in {NoPath, Notes},
          b \in BOOLEAN, arg \in Keys, keep \in BOOLEAN, ow \in BOOLEAN :
         LET c == [NoCli EXCEPT !.input = input, !.output = output, !.batch = b,
                                !.keep_temp = keep, !.api_key_arg = arg,
                                !.overwrite = ow, !.api_key = CliKey(arg, envKey)]
         IN  IF ~Truthy(c.api_key)
             THEN /\ cli' = [c EXCEPT !.status = ParserErrorStatus]
                  /\ pc' = "cli_done"
                  /\ UNCHANGED <<fs, pre, dlg, pv, trace, batch>>
             ELSE IF b
             THEN IF ~IsDir(fs, input)
                  THEN /\ cli' = [c EXCEPT !.status = ParserErrorStatus]
                       /\ pc' = "cli_done"
                       /\ UNCHANGED <<fs, pre, dlg, pv, trace, batch>>
                  ELSE /\ cli' = c
                       /\ BatchEnter("cli", input, output, c.temp_dir, DefaultExtensions,
                                     c.api_key, keep, ow)
                       /\ UNCHANGED <<pre, dlg, pv, trace>>
             ELSE IF ~IsFile(fs, input)
                  THEN /\ cli' = [c EXCEPT !.status = ParserErrorStatus]
                       /\ pc' = "cli_done"
                       /\ UNCHANGED <<fs, pre, dlg, pv, trace, batch>>
                  ELSE /\ cli' = c
                       /\ PvEnter("cli", input, output, keep, c.api_key, ow)
                       /\ UNCHANGED batch
    /\ serial' = 1
    /\ UNCHANGED <<envKey, op, runs>>

\* cli.py 89-102, 121-125: batch_process_videos is back
MainAfterBatch ==
    /\ pc = "batch_done" /\ batch.caller = "cli"
    /\ cli' = [cli EXCEPT !.status = ExitStatus(batch.err)]
    /\ pc' = "cli_done"
    /\ UNCHANGED <<fs, envKey, serial, op, pre, dlg, pv, trace, batch, runs>>

\* cli.py 110-125: process_video is back
MainAfterSingle ==
    /\ pc = "pv_done" /\ pv.caller = "cli"
    /\ cli' = [cli EXCEPT !.status = ExitStatus(pv.err)]
    /\ pc' = "cli_done"
    /\ UNCHANGED <<fs, envKey, serial, op, pre, dlg, pv, trace, batch, runs>>

InitCli ==
    /\ fs = ListingFs({"a", "b", "notes"})
    /\ envKey \in Keys
    /\ serial = 0
    /\ pc = "idle"
    /\ op = NoOp
    /\ pre = << >>
    /\ dlg = << >>
    /\ pv = NoPv
    /\ trace = << >>
    /\ batch = NoBatch
    /\ cli = NoCli
    /\ runs = NoRuns

NextCli ==
    \/ CallMain
    \/ BatchItem
    \/ ProcessVideoStep
    \/ BatchCollect
    \/ BatchReturn
    \/ MainAfterBatch
    \/ MainAfterSingle

SpecCli == InitCli /\ [][NextCli]_vars

\* ------------------------------------------- runs that write among sources

\* Output paths that are videos of the input directory: the source itself and
\* a file an earlier run left there
InPlaceOutputs == {NoPath, VideoA, CleanA}

\* One call of process_video on a directory that holds earlier outputs
CallProcessVideoInPlace ==
    /\ pc = "idle"
    /\ \E o \in InPlaceOutputs, keep \in BOOLEAN, ow \in BOOLEAN :
         /\ PvEnter("top", VideoA, o, keep, "sk", ow)
         /\ op' = [NoOp EXCEPT !.name = "process_video", !.video = VideoA, !.output = o,
                               !.keep = keep, !.api_key = "sk", !.overwrite = ow]
    /\ serial' = 1
    /\ UNCHANGED <<envKey, batch, cli, runs>>

\* One call of batch_process_videos whose outputs go to the default directory
\* or back into the input directory
CallBatchInPlace ==
    /\ pc = "idle"
    /\ \E o \in {NoPath, InDir}, keep \in BOOLEAN, ow \in BOOLEAN :
         BatchEnter("top", InDir, o, NoPath, DefaultExtensions, "sk", keep, ow)
    /\ serial' = 1
    /\ UNCHANGED <<envKey, op, pre, dlg, pv, trace, cli, runs>>

NextInPlace ==
    \/ CallProcessVideoInPlace
    \/ CallBatchInPlace
    \/ BatchItem
    \/ ProcessVideoStep
    \/ BatchCollect
    \/ BatchReturn

SpecInPlace == Init /\ [][NextInPlace]_vars

\* ------------------------------------------- two merge calls side by side

\* Two processes call merge_video_with_audio on the same video and audio.
\* Nothing in the code orders them: each does its own steps in order, and the
\* steps of the two interleave freely.  The mux tool is a process of its own;
\* it looks whether its output exists when it starts and opens the output,
\* creating or truncating it, when it writes.

InitRace ==
    /\ \E left \in SUBSET Leftovers : fs = OldFs(left) @@ BaseFs
    /\ envKey = KeyNone
    /\ serial = 0
    /\ pc = "idle"
    /\ op = NoOp
    /\ pre = << >>
    /\ dlg = << >>
    /\ pv = NoPv
    /\ trace = << >>
    /\ batch = NoBatch
    /\ cli = NoCli
    /\ runs = NoRuns

\* merger.py 47-76: the inputs are looked for, the destination is resolved and
\* looked for, -y is decided
MergeResolve(r) ==
    /\ runs[r].at = "none"
    /\ \E o \in Outputs, ow \in BOOLEAN :
         runs' = [runs EXCEPT ![r] =
                    IF MergeInputMissing(fs, VideoA, AudioA)
                    THEN [NoRun EXCEPT !.at = "done", !.output = o, !.overwrite = ow,
                                       !.err = Err("FileNotFoundError", "merge")]
                    ELSE [NoRun EXCEPT !.at = "mux", !.output = o, !.overwrite = ow,
                                       !.dest = MergeDest(fs, MergeResolved(VideoA, o), ow),
                                       !.y = MergeYFlag(ow)]]
    /\ UNCHANGED <<fs, envKey, serial, pc, op, pre, dlg, pv, trace, batch, cli>>

\* merger.py 78-92: the mux tool starts and refuses what it refuses
MuxStart(r) ==
    /\ runs[r].at = "mux"
    /\ runs' = [runs EXCEPT ![r] =
                  IF FfmpegRefuses(fs, {VideoA, AudioA}, runs[r].dest, runs[r].y)
                  THEN [@ EXCEPT !.at = "done", !.err = Err("ffmpeg.Error", "merge")]
                  ELSE [@ EXCEPT !.at = "write"]]
    /\ UNCHANGED <<fs, envKey, serial, pc, op, pre, dlg, pv, trace, batch, cli>>

\* merger.py 78-99: the mux tool writes its output and the call returns the
\* path, or raises when the tool failed
MuxWrite(r) ==
    /\ runs[r].at = "write"
    /\ \E oc \in Outcomes :
         LET w == FfmpegRun(fs, {VideoA, AudioA}, runs[r].dest, TRUE, oc,
                            <<"merged">> \o fs[VideoA].data \o fs[AudioA].data, r)
         IN  /\ fs' = w.fs
             /\ runs' = [runs EXCEPT ![r] =
                           IF w.ok
                           THEN [@ EXCEPT !.at = "done", !.ret = runs[r].dest]
                           ELSE [@ EXCEPT !.at = "done",
                                          !.err = Err("ffmpeg.Error", "merge")]]
    /\ UNCHANGED <<envKey, serial, pc, op, pre, dlg, pv, trace, batch, cli>>

NextRace == \E r \in RunIds : MergeResolve(r) \/ MuxStart(r) \/ MuxWrite(r)

SpecRace == InitRace /\ [][NextRace]_vars

\* ------------------------------------------------------------------ claims

TempGone(fsys, d) == ~Exists(fsys, d) /\ \A p \in DOMAIN fsys : ~IsUnder(p, d)

\* C1: once a process_video call that created its temporary directory has
\* ended, by return or by a raise from extract, isolate, merge or the retained
\* copy, the directory and everything written into it are gone; between calls
\* nothing is left under the temporary root.
C1_TempAreaRemoved ==
    /\ (pc = "pv_done" /\ pv.temp_dir # NoPath) => TempGone(fs, pv.temp_dir)
    /\ pc \in {"pv_done", "idle"} => \A p \in DOMAIN fs : ~IsUnder(p, TmpRoot)

C1_Witness ==
    /\ pc = "pv_done" /\ pv.temp_dir # NoPath
    /\ pv.err = Err("OSError", "keep")
    /\ Len(trace) = 3

StageOrder == <<"extract", "isolate", "merge">>

\* C2: in one process_video call the stages run as extract, isolate, merge,
\* each at most once, each on the previous stage's output; no stage is
\* started after a failed one, and the failed stage's error is the call's.
C2_StageOrder ==
    pc \in {"pv_extract", "pv_isolate", "pv_merge", "pv_keep", "pv_cleanup", "pv_done"} =>
        /\ Len(trace) <= 3
        /\ \A i \in 1..Len(trace) : trace[i].stage = StageOrder[i]
        /\ \A i \in 1..(Len(trace) - 1) : trace[i].err = NoErr
        /\ Len(trace) >= 1 => trace[1].input = pv.video_path
        /\ \A i \in 2..Len(trace) : trace[i].input = trace[i - 1].ret
        /\ (Len(trace) >= 1 /\ trace[Len(trace)].err # NoErr) =>
               pv.err = trace[Len(trace)].err
        /\ (pc = "pv_done" /\ pv.err = NoErr) => Len(trace) = 3

C2_Witness ==
    /\ pc = "pv_done"
    /\ Len(trace) = 2
    /\ trace[2].err = Err("ApiError", "isolate")
    /\ pv.err = Err("ApiError", "isolate")

\* The merge call that has just returned, as its caller sees it
MergeReturned == pc = "returned" /\ op.name = "merge"

Planned == IF op.output = NoPath THEN WithStemMarker(op.video, "_clean") ELSE op.output

Renamed == WithStemMarker(Planned, "_new")

Unchanged(p) == p \in DOMAIN fs /\ fs[p] = pre[p]

MergedNow ==
    File(<<"merged">> \o pre[op.video].data \o pre[op.audio].data, serial)

\* C3: a merge call with overwrite=false leaves every file that was at the
\* planned or at the renamed destination as it was, also when both exist.
C3_NoReplaceWithoutOverwrite ==
    (MergeReturned /\ ~op.overwrite) =>
        \A p \in {Planned, Renamed} : p \in DOMAIN pre => Unchanged(p)

C3_Witness ==
    /\ MergeReturned /\ ~op.overwrite /\ op.outcome = "ok"
    /\ op.video \in DOMAIN pre /\ op.audio \in DOMAIN pre
    /\ Planned \in DOMAIN pre /\ Renamed \in DOMAIN pre

\* C4: a merge call with overwrite=false whose planned path exists leaves that
\* file as it was; what it writes, it writes at the "_new" path only; when it
\* returns, it returns the "_new" path, which holds the merged content; and it
\* returns whenever the mux tool does its work and the "_new" path is free.
C4_MergeCollisionLaw ==
    (MergeReturned /\ ~op.overwrite /\ Planned \in DOMAIN pre) =>
        /\ Unchanged(Planned)
        /\ \A p \in DOMAIN fs : p # Renamed => p \in DOMAIN pre /\ fs[p] = pre[p]
        /\ op.err = NoErr =>
               /\ op.ret = Renamed
               /\ Renamed \in DOMAIN fs /\ fs[Renamed] = MergedNow
        /\ (op.outcome = "ok" /\ op.video \in DOMAIN pre /\ op.audio \in DOMAIN pre
                /\ Renamed \notin DOMAIN pre) => op.err = NoErr

C4_Witness ==
    /\ MergeReturned /\ ~op.overwrite /\ Planned \in DOMAIN pre
    /\ op.err = NoErr /\ op.ret = Renamed
    /\ op.output # NoPath

\* C5: a successful merge call with overwrite=true whose planned path exists
\* returns that path, which now holds the merged content, and creates no
\* "_new" sibling.
C5_MergeOverwriteLaw ==
    (MergeReturned /\ op.overwrite /\ Planned \in DOMAIN pre /\ op.err = NoErr) =>
        /\ op.ret = Planned
        /\ Planned \in DOMAIN fs /\ fs[Planned] = MergedNow
        /\ Renamed \in DOMAIN fs => (Renamed \in DOMAIN pre /\ fs[Renamed] = pre[Renamed])

C5_Witness ==
    /\ MergeReturned /\ op.overwrite /\ Planned \in DOMAIN pre /\ op.err = NoErr
    /\ fs[Planned] # pre[Planned]
    /\ Renamed \notin DOMAIN fs

\* Nothing happened but the not-found error
NotFoundOnly(err) == err.type = "FileNotFoundError" /\ dlg = << >> /\ fs = pre

\* C7: called on a path that does not exist, extract_audio_from_video,
\* isolate_voice, merge_video_with_audio (either input) and process_video
\* raise the not-found error having started no mux-tool run, made no remote
\* request and written no file.
C7_MissingInputFailsFirst ==
    /\ (pc = "returned" /\ op.name = "extract" /\ op.video \notin DOMAIN pre) =>
           NotFoundOnly(op.err)
    /\ (pc = "returned" /\ op.name = "isolate" /\ op.audio \notin DOMAIN pre) =>
           NotFoundOnly(op.err)
    /\ (MergeReturned /\ (op.video \notin DOMAIN pre \/ op.audio \notin DOMAIN pre)) =>
           NotFoundOnly(op.err)
    /\ (pc = "pv_done" /\ pv.video_path \notin DOMAIN pre) =>
           NotFoundOnly(pv.err) /\ trace = << >>

C7_Witness ==
    /\ MergeReturned
    /\ op.video \in DOMAIN pre /\ op.audio \notin DOMAIN pre
    /\ op.overwrite /\ op.outcome = "ok"

\* The credential as the claim resolves it: the parameter, else the variable
Credential == IF op.api_key # KeyNone THEN op.api_key ELSE envKey

\* C8: isolate_voice called on an existing file with a missing or empty
\* credential (parameter absent and variable unset or empty, or parameter
\* empty) raises the configuration error, creates no client, sends no request
\* and writes no file.
C8_EmptyCredentialFailsFast ==
    (pc = "returned" /\ op.name = "isolate" /\ op.audio \in DOMAIN pre
        /\ ~Truthy(Credential)) =>
        /\ op.err.type = "ValueError"
        /\ dlg = << >>
        /\ fs = pre

\* The batch call has ended without raising
BatchReturned == pc = "batch_done" /\ batch.caller = "top" /\ batch.err = NoErr

\* The output paths an item's file name gives rise to
Derived(video_file) ==
    LET planned == Join(batch.output_dir,
                        Comp(Append(Name(video_file).stem, "_clean"), Name(video_file).ext))
    IN  {planned, WithStemMarker(planned, "_new")}

IsFailed(video_file) == \E i \in 1..Len(batch.failed) : batch.failed[i] = video_file

\* C6: a failing item never ends the batch: every discovered item is attempted
\* exactly once, in listing order; a failed item leaves no entry in the list;
\* the entries are, in order, the items that did not fail, each at a path
\* derived from its own name; so one failure among N gives N-1 entries.
C6_BatchIsolationLaw ==
    /\ batch.caller = "top" =>
           batch.attempted = SubSeq(batch.video_files, 1, batch.i)
    /\ BatchReturned =>
           LET succeeded == SelectSeq(batch.video_files, LAMBDA f : ~IsFailed(f))
           IN  /\ batch.attempted = batch.video_files
               /\ Len(batch.output_files) = Len(succeeded)
               /\ \A i \in 1..Len(succeeded) : batch.output_files[i] \in Derived(succeeded[i])
               /\ \A i \in 1..Len(batch.failed), j \in 1..Len(batch.output_files) :
                      batch.output_files[j] \notin Derived(batch.failed[i])
               /\ Len(batch.failed) = 1 =>
                      Len(batch.output_files) = Len(batch.video_files) - 1

C6_Witness ==
    /\ BatchReturned
    /\ Len(batch.video_files) = 3
    /\ batch.failed = <<batch.video_files[1]>>
    /\ Len(batch.output_files) = 2

Range(q) == {q[i] : i \in 1..Len(q)}

\* C9: discovery selects exactly the direct children of input_dir that are
\* regular files and whose extension equals, case ignored, an extension of the
\* configured set.
C9_DiscoveryCaseInsensitive ==
    (pc \in {"batch_loop", "batch_done"} /\ batch.caller = "top"
        /\ batch.err = NoErr /\ batch.i = 0) =>
        Range(batch.video_files) =
            {f \in batch.listed :
                /\ IsFile(fs, f)
                /\ \E e \in batch.video_extensions : Lower(Name(f).ext) = Lower(e)}

\* The run main was asked for
CliCredential == Truthy(cli.api_key_arg) \/ Truthy(envKey)

CliKindOk == IF cli.batch THEN IsDir(fs, cli.input) ELSE IsFile(fs, cli.input)

CliRaised == IF cli.batch THEN batch.err # NoErr ELSE pv.err # NoErr

\* C10 as stated: the exit status is 0 when the run completes and 1 in every
\* other case (credential absent, input of the wrong kind, exception escaping).
C10_ExitZeroOrOne ==
    pc = "cli_done" =>
        cli.status = IF CliCredential /\ CliKindOk /\ ~CliRaised THEN 0 ELSE 1

\* C10 amended: 0 when the run completes (failed batch items included), 1 when
\* an exception escapes process_video / batch_process_videos, and 2, the
\* status of parser.error, when the credential is absent or the input path is
\* of the wrong kind for the mode.
C10_ExitStatus ==
    pc = "cli_done" =>
        cli.status = IF ~CliCredential \/ ~CliKindOk THEN 2
                     ELSE IF CliRaised THEN 1
                     ELSE 0

C10_Witness ==
    /\ pc = "cli_done"
    /\ CliCredential /\ ~CliKindOk /\ cli.batch
    /\ cli.status = 2

\* The three stages of the finished process_video call all returned
StagesSucceeded == Len(trace) = 3 /\ \A i \in 1..3 : trace[i].err = NoErr

\* C11: the retained copy is best-effort. When keep_temp_files is true and
\* extract, isolate and merge have all succeeded, process_video returns the
\* path merge returned, whatever became of the creation of temp_files and of
\* the two copies.
C11_RetainedCopyBestEffort ==
    (pc = "pv_done" /\ pv.keep_temp_files /\ StagesSucceeded) =>
        /\ pv.err = NoErr
        /\ pv.final = trace[3].ret

\* Where the retained copy of an intermediate file of this call is kept
RetainedPath(produced) == Join(TempFilesDir(pv.video_path), Name(produced))

\* The intermediate audio files the finished call produced: what extract and
\* isolate returned
Produced ==
    {trace[i].ret : i \in {j \in 1..Len(trace) :
                             /\ trace[j].stage \in {"extract", "isolate"}
                             /\ trace[j].err = NoErr}}

\* C12: when keep_temp_files is true, every intermediate audio file the call
\* produced is, once the call has ended, a file of temp_files next to the
\* source video, written by this call; this for calls that end by a return and
\* for calls that end by the raise of a stage alike.
C12_RetainedOnEveryExit ==
    (pc = "pv_done" /\ pv.keep_temp_files /\ pv.temp_dir # NoPath) =>
        \A f \in Produced :
            /\ IsFile(fs, RetainedPath(f))
            /\ fs[RetainedPath(f)].by = serial

\* The names process_video gives the two intermediate files of an item
Intermediates(video_file) ==
    {Comp(Name(video_file).stem, ".mp3"),
     Comp(Append(Name(video_file).stem, "_isolated"), ".mp3")}

\* The retained-files directory batch_process_videos falls back on
DefaultTemp == Join(batch.input_dir, Comp(<<"temp_files">>, ""))

\* C13: a batch called with a temp_dir and with keep_temp_files true has, once
\* it has returned, the retained files of every item that did not fail in
\* that directory, and has created no other directory of retained files; the
\* default directory is there only after a batch with keep_temp_files true and
\* no temp_dir.
C13_SuppliedTempDirReceives ==
    BatchReturned =>
        /\ (batch.keep_temp_files /\ batch.temp_dir = SuppliedTemp) =>
              /\ \A i \in 1..Len(batch.video_files) :
                     ~IsFailed(batch.video_files[i]) =>
                         \A c \in Intermediates(batch.video_files[i]) :
                             IsFile(fs, Join(SuppliedTemp, c))
              /\ ~Exists(fs, DefaultTemp)
        /\ Exists(fs, DefaultTemp) =>
              batch.keep_temp_files /\ batch.temp_dir = DefaultTemp

\* The file holds something made from the source video: what the stages
\* write begins with the content of the video they were given
MadeFrom(entry, video_file) ==
    LET src == ListingFs(Entries)[video_file].data
    IN  /\ Len(entry.data) > Len(src)
        /\ SubSeq(entry.data, 1, Len(src)) = src

\* C16: after a batch with keep_temp_files true, every item that did not fail
\* has its own two intermediate files among the retained files: no item's
\* retained file has been replaced by that of another item, two items of one
\* stem (a.mp4 and a.mov) included.
C16_RetainedFilesDistinct ==
    (BatchReturned /\ batch.keep_temp_files) =>
        \A i \in 1..Len(batch.video_files) :
            LET video_file == batch.video_files[i]
            IN  ~IsFailed(video_file) =>
                    \A c \in Intermediates(video_file) :
                        /\ IsFile(fs, Join(TempFilesDir(video_file), c))
                        /\ MadeFrom(fs[Join(TempFilesDir(video_file), c)], video_file)

\* What the files that were there before the call held
Original == OldFs(Leftovers) @@ BaseFs

\* The source video is as it was before the call
SourceKept(f) == f \in DOMAIN fs /\ fs[f] = Original[f]

\* The path batch_process_videos plans for the item's output
PlannedFor(video_file) ==
    Join(batch.output_dir,
         Comp(Append(Name(video_file).stem, "_clean"), Name(video_file).ext))

\* process_video has ended, having found its source video
PvEnded == pc = "pv_done" /\ pv.caller = "top" /\ pv.temp_dir # NoPath

\* C15 as stated: neither process_video nor batch_process_videos modifies or
\* replaces a source video, whatever output_path, output_dir and overwrite
\* are: the output path being the source itself and one item's planned output
\* being another item's source included.
C15_SourceNeverModified ==
    /\ PvEnded => SourceKept(pv.video_path)
    /\ batch.caller = "top" =>
           \A f \in Range(batch.video_files) : SourceKept(f)

\* C15 amended: process_video never modifies its own source video, and a
\* batch with overwrite=false modifies no source video; a batch with
\* overwrite=true modifies a source video only when that video lies at the
\* path planned for the output of another item of the batch.
C15_SourceKeptUnlessOverwritten ==
    /\ PvEnded => SourceKept(pv.video_path)
    /\ batch.caller = "top" =>
           \A f \in Range(batch.video_files) :
               \/ SourceKept(f)
               \/ /\ batch.overwrite
                  /\ \E i \in 1..batch.i :
                         /\ batch.video_files[i] # f
                         /\ PlannedFor(batch.video_files[i]) = f

\* A batch writing into its input directory with overwrite=false, where the
\* output planned for a.mp4 is the source a_clean.mp4: both were processed,
\* the output of a.mp4 went to the renamed path and the sources are as before
C15_Witness ==
    /\ BatchReturned /\ ~batch.overwrite /\ batch.output_dir = batch.input_dir
    /\ Range(batch.video_files) = {VideoA, CleanA}
    /\ batch.failed = << >>
    /\ WithStemMarker(PlannedFor(VideoA), "_new") \in Range(batch.output_files)
    /\ SourceKept(VideoA) /\ SourceKept(CleanA)

\* The run has returned a path to its caller
RunReturned(r) == runs[r].at = "done" /\ runs[r].err = NoErr

\* C14: of two merge calls with overwrite=false that resolve to the same
\* planned output path and whose steps interleave, never both return the same
\* final path: the look at the destination and the write to it are one step,
\* so neither output replaces the other.
C14_NoSharedFinalPath ==
    \A r1, r2 \in RunIds :
        (/\ r1 # r2
         /\ RunReturned(r1) /\ RunReturned(r2)
         /\ ~runs[r1].overwrite /\ ~runs[r2].overwrite
         /\ MergeResolved(VideoA, runs[r1].output) = MergeResolved(VideoA, runs[r2].output))
        => runs[r1].ret # runs[r2].ret

====
